---- MODULE Spec2Model ----
(***************************************************************************)
(* Model of app.py: the per-visitor session protocol of the MediFlow chat  *)
(* front-end.  chat_fn decodes a hidden session marker from the chat       *)
(* history or mints a new session id, registers it with the agent runtime, *)
(* and dispatches the message through run_agent_sync, which bridges the    *)
(* synchronous callback to the asynchronous agent runner.                  *)
(*                                                                         *)
(* Python values are records.  A string is a sequence of one-character     *)
(* strings, so that startswith and split are computed on characters.       *)
(***************************************************************************)
EXTENDS Integers, Sequences, FiniteSets, TLC

(***************************************************************************)
(* Bounds of the model.                                                    *)
(***************************************************************************)
\* longest event sequence one agent run produces
MaxEvents == 2
\* longest run of consecutive turns of a visitor fed by the transport
MaxRun == 3

(***************************************************************************)
(* Strings.                                                                *)
(***************************************************************************)
\* the literal "__SID__:" of the hidden marker
SID_MARKER == <<"_", "_", "S", "I", "D", "_", "_", ":">>

\* SESSION_ID_PREFIX = "session-"
SESSION_ID_PREFIX == <<"s", "e", "s", "s", "i", "o", "n", "-">>

\* the default session id of ensure_session_for, "global-startup"
GLOBAL_STARTUP == <<"g", "l", "o", "b", "a", "l", "-", "s", "t", "a", "r", "t", "u", "p">>

\* the literal "(no response)"
NO_RESPONSE == <<"(", "n", "o", " ", "r", "e", "s", "p", "o", "n", "s", "e", ")">>

\* the literal "[Agent runtime error] " that opens the reply of a faulted agent run
AGENT_RUNTIME_ERROR == <<"[", "A", "g", "e", "n", "t", " ", "r", "u", "n", "t", "i", "m", "e", " ", "e", "r", "r", "o", "r", "]", " ">>

\* the literal "[Error invoking agent] " that opens the reply of a faulted bridge
ERROR_INVOKING_AGENT == <<"[", "E", "r", "r", "o", "r", " ", "i", "n", "v", "o", "k", "i", "n", "g", " ", "a", "g", "e", "n", "t", "]", " ">>

\* s.startswith(p)
StartsWith(s, p) == Len(s) >= Len(p) /\ SubSeq(s, 1, Len(p)) = p

\* the positions of character c in s
Positions(s, c) == {i \in 1..Len(s) : s[i] = c}

\* the least element of a non-empty set of integers
Least(S) == CHOOSE i \in S : \A j \in S : i <= j

\* the greatest element of a non-empty set of integers
Greatest(S) == CHOOSE i \in S : \A j \in S : i >= j

\* s.split(c, 1): splits at the first occurrence of c, at most once
SplitOnce(s, c) ==
    IF Positions(s, c) = {} THEN <<s>>
    ELSE LET i == Least(Positions(s, c))
         IN <<SubSeq(s, 1, i - 1), SubSeq(s, i + 1, Len(s))>>

(***************************************************************************)
(* Python values.  A field of a history entry is a str, an int or None.    *)
(* An entry is a tuple or list of fields, or a value that is no sequence.  *)
(* A history is None, a list, a tuple, or an int (no container at all).    *)
(***************************************************************************)
None == [kind |-> "none", s |-> <<>>]
Str(s) == [kind |-> "str", s |-> s]
PyInt == [kind |-> "int", s |-> <<>>]
\* a local variable that is not bound yet
Unset == [kind |-> "unset", s |-> <<>>]

Tuple(fields) == [kind |-> "tuple", s |-> <<>>, items |-> fields]
List(fields) == [kind |-> "list", s |-> <<>>, items |-> fields]
\* an entry that is no tuple or list: a bare str, an int or None
Scalar(v) == [kind |-> v.kind, s |-> v.s, items |-> <<>>]

HNone == [kind |-> "none", n |-> 0, items |-> <<>>]
HList(entries) == [kind |-> "list", n |-> 0, items |-> entries]
HTuple(entries) == [kind |-> "tuple", n |-> 0, items |-> entries]
HInt(n) == [kind |-> "int", n |-> n, items |-> <<>>]
HUnset == [kind |-> "unset", n |-> 0, items |-> <<>>]

\* bool(history): None is false, a container is true when non-empty, an int when non-zero
Truthy(h) ==
    CASE h.kind = "none" -> FALSE
      [] h.kind \in {"list", "tuple"} -> Len(h.items) > 0
      [] h.kind = "int" -> h.n # 0
      [] OTHER -> FALSE

\* whether *history can be unpacked: a value that is not iterable raises TypeError
Iterable(h) == h.kind \in {"list", "tuple"}

\* bool(session_id) of a str or None
TruthyStr(v) == v.kind = "str" /\ Len(v.s) > 0

\* encode: the hidden marker ("__SID__:<id>", "")
Marker(sid) == Tuple(<<Str(SID_MARKER \o sid), Str(<<>>)>>)

(***************************************************************************)
(* Session Token Codec: the decode step at the head of chat_fn.            *)
(***************************************************************************)
\* first[0].rsplit(":", 1)[1]: the text after the LAST colon
ExtractIdAfterLastColon(s) == SubSeq(s, Greatest(Positions(s, ":")) + 1, Len(s))

\* first[0].split(":", 1)[1]: the text after the first colon
ExtractId(s) == SplitOnce(s, ":")[2]

\* the tests chat_fn makes on history[0] before it extracts an id
IsMarkerEntry(first) ==
    /\ first.kind \in {"list", "tuple"}
    /\ Len(first.items) >= 1
    /\ first.items[1].kind = "str"
    /\ StartsWith(first.items[1].s, SID_MARKER)

\* the guard on the history value itself
HasFirstEntry(h) == Truthy(h) /\ h.kind = "list" /\ Len(h.items) > 0

\* the decode step: the session id (None when no marker is seen) and the history
\* chat_fn goes on with
Decode(h) ==
    IF HasFirstEntry(h) /\ IsMarkerEntry(h.items[1])
    THEN [session_id |-> Str(ExtractId(h.items[1].items[1].s)),
          history |-> [h EXCEPT !.items = Tail(@)]]
    ELSE [session_id |-> None, history |-> h]

\* `if session_id:`, the test of line 87 inverted
NeedsNewSessionInverted(session_id) == TruthyStr(session_id)

\* `if session_id is None`, which lets the empty id through
NeedsNewSessionOnlyIfNone(session_id) == session_id.kind = "none"

\* `if not session_id`
NeedsNewSession(session_id) == ~TruthyStr(session_id)

(***************************************************************************)
(* Agent Dispatch Facade: the scan of the agent's event stream.            *)
(***************************************************************************)
\* the texts a part of an event can carry: None, "", "ok", "no"
Texts == {None, Str(<<>>), Str(<<"o", "k">>), Str(<<"n", "o">>)}

\* an execution event: is_final_response(), the shape of content, parts[0].text
Events ==
    [final : BOOLEAN, content : {"none", "noparts"}, text : {None}]
    \cup [final : BOOLEAN, content : {"parts"}, text : Texts]

\* sequences of at most n elements of S
SeqUpTo(S, n) == UNION {[1..k -> S] : k \in 0..n}

\* the event streams of one agent run
Streams == SeqUpTo(Events, MaxEvents)

\* the streams the turns of a visitor draw from: no event, or one event whose text
\* is None or "ok"; they give every kind of reply, and the scan of longer streams
\* is followed event by event in SpecScan
TurnStreams ==
    {<<>>} \cup {<<ev>> : ev \in {e \in Events : e.text \in {None, Str(<<"o", "k">>)}}}

\* the condition of line 38
Qualifies(ev) == ev.final /\ ev.content = "parts"

\* the body of the loop that keeps the first qualifying event's text
OnEventKeepFirst(final_response, ev) ==
    IF Qualifies(ev) /\ final_response = Str(NO_RESPONSE) THEN ev.text ELSE final_response

\* the body of the `async for` loop: one event
OnEvent(final_response, ev) ==
    IF Qualifies(ev) THEN ev.text ELSE final_response

RECURSIVE ScanEvents(_, _)
\* the whole loop over a stream that ends without a fault
ScanEvents(final_response, evs) ==
    IF evs = <<>> THEN final_response
    ELSE ScanEvents(OnEvent(final_response, Head(evs)), Tail(evs))

\* str(exc) and the traceback: a text the model does not look into
Describe(exc) == <<"<", "e", "x", "c", ">">>

\* the reply of the `except Exception` clause of the helper
AgentRuntimeErrorReply(exc) == Str(AGENT_RUNTIME_ERROR \o Describe(exc))

\* the reply of the `except Exception` clause of run_agent_sync
ErrorInvokingAgentReply(exc) == Str(ERROR_INVOKING_AGENT \o Describe(exc))

\* the exceptions the agent runtime and the event loop can raise
RuntimeFaults == {"RuntimeError", "OSError"}

\* the value the helper returns for a stream and the fault that ends it ("none": no fault)
AgentReply(evs, fault) ==
    IF fault = "none" THEN ScanEvents(Str(NO_RESPONSE), evs)
    ELSE AgentRuntimeErrorReply(fault)

(***************************************************************************)
(* State.                                                                  *)
(***************************************************************************)
VARIABLES
    turn,           \* per visitor: the locals and the position of its call of chat_fn
    sessions,       \* the session ids registered in the agent runtime's session store
    openLoops,      \* the event loops that are created and not closed
    issued,         \* the session ids chat_fn has minted so far
    startup,        \* the position of the import of app.py (ensure_session_for, line 29)
    stream,         \* event scan: the events the agent run produces
    streamFault,    \* event scan: the fault that ends the stream, "none" for no fault
    consumed,       \* event scan: the number of events the loop has taken
    final_response, \* event scan: the local final_response
    scanPc          \* event scan: "scan" inside the loop, "returned" after line 42

vars == <<turn, sessions, openLoops, issued, startup, stream, streamFault, consumed, final_response, scanPc>>

turnVars == <<turn, sessions, openLoops, issued, startup>>
scanVars == <<stream, streamFault, consumed, final_response, scanPc>>

\* the calls of chat_fn that can be in flight at once, one per worker thread
Visitors == {"v1", "v2"}

\* the agent key chat_fn uses when the transport passes none (line 11)
DEFAULT_AGENT_KEY == "triage"

\* the visitor whose turns are followed one after the other
Sequential == {"v1"}

\* the agent keys of AGENTS
AGENTS == {"triage"}

\* the agent_choice values a call can carry: the known keys and one unknown key
AgentChoices == AGENTS \cup {"unknown"}

\* the messages a visitor sends
Messages == {Str(<<"h", "i">>)}

\* the values str(uuid.uuid4()) can take
UUIDS == {<<"u", "1">>, <<"u", "2">>}

(***************************************************************************)
(* The histories a client can send.                                        *)
(***************************************************************************)
\* a real turn-pair ("hi", "ok")
RealTurn == Tuple(<<Str(<<"h", "i">>), Str(<<"o", "k">>)>>)

\* session ids a client can put in a marker; some contain ':' characters
SidInputs ==
    { <<"a">>, <<"a", ":", "b">>, <<":", "a">>,
      SESSION_ID_PREFIX \o <<"a", "b", "c", "1", "2", "3">>,
      SESSION_ID_PREFIX \o <<"u", "1">>,
      GLOBAL_STARTUP }

\* the entries a client can put at index 0
FirstEntries ==
    {Marker(sid) : sid \in SidInputs}
    \cup { Marker(<<>>),
           Tuple(<<Str(SID_MARKER \o <<"a">>), Str(<<"o", "k">>)>>),
           Tuple(<<Str(SID_MARKER), Str(<<"o", "k">>)>>),
           RealTurn,
           Tuple(<<Str(SubSeq(SID_MARKER, 1, 7) \o <<"a">>), Str(<<>>)>>),
           Tuple(<<>>),
           Tuple(<<Str(SID_MARKER \o <<"a">>)>>),
           Tuple(<<Str(SID_MARKER \o <<"a">>), Str(<<>>), Str(<<"x">>)>>),
           List(<<Str(SID_MARKER \o <<"a">>), Str(<<>>)>>),
           Tuple(<<PyInt, Str(<<>>)>>),
           Tuple(<<None, Str(<<>>)>>),
           Scalar(Str(SID_MARKER \o <<"a">>)),
           Scalar(PyInt),
           Scalar(None) }

\* the first entries that are also sent with a real turn after them
FollowedEntries ==
    { Marker(<<"a", ":", "b">>), Marker(<<>>), RealTurn,
      Tuple(<<Str(SID_MARKER \o <<"a">>), Str(<<"o", "k">>)>>),
      Marker(SESSION_ID_PREFIX \o <<"u", "1">>) }

\* the history values of a call that is not fed by the previous turn
HistoryInputs ==
    {HNone, HList(<<>>), HTuple(<<>>), HInt(0), HInt(5)}
    \cup {HList(<<e>>) : e \in FirstEntries}
    \cup {HList(<<e, RealTurn>>) : e \in FollowedEntries}
    \cup {HTuple(<<Marker(<<"a">>)>>), HTuple(<<RealTurn>>)}

\* the histories a visitor's first turn carries when the transport holds nothing
\* of an earlier session: no history, an empty one, or real turns only
RunOpeners == {HNone, HList(<<>>), HList(<<RealTurn>>)}

(***************************************************************************)
(* A call of chat_fn.                                                      *)
(***************************************************************************)
\* the locals of a call before it starts; history0 is the value of the argument
\* history at the call, caller the content of the caller's object now, and the
\* local history is rebound, never changed in place
IdleTurn ==
    [ pc |-> "idle",
      message |-> Unset, history0 |-> HUnset, caller |-> HUnset,
      agent_choice |-> "none", ambient |-> FALSE,
      history |-> HUnset, session_id |-> Unset, history_to_return |-> HUnset,
      response |-> Unset, result |-> Unset, exc |-> "none",
      decoded |-> Unset, minted |-> Unset, uuid |-> <<>>, created |-> <<>>, regFailed |-> FALSE,
      dispatched |-> Unset, runs |-> 0, raisedAt |-> "none",
      runIdx |-> 0, runSid |-> Unset ]

\* the history the transport holds after a completed turn: the history the turn
\* computed to persist, extended by the turn-pair (message, response)
TransportHistory(tn) ==
    [tn.history_to_return EXCEPT !.items = Append(@, Tuple(<<tn.message, tn.response>>))]

\* entry of chat_fn with the given arguments; session_id = None
Enter(v, message, history, agent_choice, runIdx, runSid) ==
    turn' = [turn EXCEPT ![v] =
                [IdleTurn EXCEPT !.pc = "decode", !.message = message, !.history0 = history,
                                 !.caller = history,
                                 !.history = history, !.agent_choice = agent_choice,
                                 !.session_id = None,
                                 !.runIdx = runIdx, !.runSid = runSid]]

\* the transport calls chat_fn with a history of the client's own making
ChatFnCall(v) ==
    /\ turn[v].pc = "idle"
    /\ startup.pc = "served"
    /\ \E message \in Messages, history \in HistoryInputs, agent_choice \in AgentChoices :
            Enter(v, message, history, agent_choice, 1, Unset)
    /\ UNCHANGED <<sessions, openLoops, issued, startup, scanVars>>

\* the histories of the calls that are followed in flight together: none, and one
\* that carries the marker of a session another call can be minting
ConcurrentHistories ==
    {HNone, HList(<<Marker(SESSION_ID_PREFIX \o <<"u", "1">>)>>)}

\* the messages of the calls that are followed in flight together: each worker
\* thread carries a message of its own
ConcurrentMessages == [v \in Visitors |-> IF v \in Sequential THEN Str(<<"h", "i">>)
                                                            ELSE Str(<<"y", "o">>)]

\* the transport calls chat_fn on a worker thread while other calls are in flight
ChatFnCallConcurrent(v) ==
    /\ turn[v].pc = "idle"
    /\ startup.pc = "served"
    /\ \E history \in ConcurrentHistories :
            Enter(v, ConcurrentMessages[v], history, DEFAULT_AGENT_KEY, 1, Unset)
    /\ UNCHANGED <<sessions, openLoops, issued, startup, scanVars>>

\* a call that has returned or raised is over: chat_fn keeps none of its locals
Forget(v) ==
    /\ turn[v].pc \in {"done", "propagated"}
    /\ turn' = [turn EXCEPT ![v] = IdleTurn]
    /\ UNCHANGED <<sessions, openLoops, issued, startup, scanVars>>

\* the transport calls chat_fn again, for the same agent, with the history the
\* previous turn of the run handed back; followed for the runs of a visitor whose
\* first turn carried no marker and minted the session id
ChatFnCallNext(v) ==
    /\ turn[v].pc = "done"
    /\ turn[v].runIdx < MaxRun
    /\ turn[v].runIdx = 1 => turn[v].minted.kind = "str" /\ turn[v].history0 \in RunOpeners
    /\ \E message \in Messages :
            Enter(v, message, TransportHistory(turn[v]), turn[v].agent_choice,
                  turn[v].runIdx + 1,
                  IF turn[v].runIdx = 1 THEN turn[v].minted ELSE turn[v].runSid)
    /\ UNCHANGED <<sessions, openLoops, issued, startup, scanVars>>

\* DecodeMarker with the marker's id looked up in the session store: an id the
\* store does not hold is dropped and the marker kept in the history
DecodeMarkerKnownOnly(v) ==
    /\ turn[v].pc = "decode"
    /\ LET d == Decode(turn[v].history)
           known == d.session_id.kind = "str" /\ d.session_id.s \in sessions
       IN turn' = [turn EXCEPT ![v].session_id = IF known THEN d.session_id ELSE None,
                               ![v].history = IF known THEN d.history ELSE turn[v].history,
                               ![v].decoded = IF known THEN d.session_id ELSE Unset,
                               ![v].pc = IF known THEN "reuse" ELSE "mint"]
    /\ UNCHANGED <<sessions, openLoops, issued, startup, scanVars>>

\* lines 74-85: look for the marker at index 0
DecodeMarker(v) ==
    /\ turn[v].pc = "decode"
    /\ LET d == Decode(turn[v].history)
       IN turn' = [turn EXCEPT ![v].session_id = d.session_id,
                               ![v].history = d.history,
                               ![v].decoded = IF d.session_id.kind = "str" THEN d.session_id ELSE Unset,
                               ![v].pc = IF NeedsNewSession(d.session_id) THEN "mint" ELSE "reuse"]
    /\ UNCHANGED <<sessions, openLoops, issued, startup, scanVars>>

\* MintSession with the identifier cut to its first character
MintSessionTruncated(v) ==
    /\ turn[v].pc = "mint"
    /\ \E u \in UUIDS :
          /\ turn' = [turn EXCEPT ![v].session_id = Str(SESSION_ID_PREFIX \o SubSeq(u, 1, 1)),
                               ![v].minted = Str(SESSION_ID_PREFIX \o SubSeq(u, 1, 1)),
                               ![v].uuid = u,
                               ![v].pc = "reg_runner"]
          /\ issued' = issued \cup {SESSION_ID_PREFIX \o SubSeq(u, 1, 1)}
    /\ UNCHANGED <<sessions, openLoops, startup, scanVars>>

\* line 89: session_id = SESSION_ID_PREFIX + str(uuid.uuid4()); uuid4 returns any
\* identifier, one it has returned before included
MintSession(v) ==
    /\ turn[v].pc = "mint"
    /\ \E u \in UUIDS :
          /\ turn' = [turn EXCEPT ![v].session_id = Str(SESSION_ID_PREFIX \o u),
                               ![v].minted = Str(SESSION_ID_PREFIX \o u),
                               ![v].uuid = u,
                               ![v].pc = "reg_runner"]
          /\ issued' = issued \cup {SESSION_ID_PREFIX \o u}
    /\ UNCHANGED <<sessions, openLoops, startup, scanVars>>

(***************************************************************************)
(* Registration of a minted session id: lines 92-105.  Every exception of  *)
(* this block is swallowed by the `except Exception: pass` of line 103.    *)
(***************************************************************************)
\* Loop with one loop per place of creation, shared by all the calls (a
\* module-level loop, or asyncio.get_event_loop() in place of new_event_loop())
LoopShared(v, site) == [owner |-> "shared", site |-> site]

\* an event loop, named by the visitor whose call created it and the place of creation
Loop(v, site) == [owner |-> v, site |-> site]

\* line 93: make_runner_for(AGENTS[agent_choice]); an unknown key raises KeyError
RegMakeRunner(v) ==
    /\ turn[v].pc = "reg_runner"
    /\ \/ /\ turn[v].agent_choice \in AGENTS
          /\ turn' = [turn EXCEPT ![v].pc = "reg_loop"]
       \/ turn' = [turn EXCEPT ![v].regFailed = TRUE, ![v].pc = "prepend"]
    /\ UNCHANGED <<sessions, openLoops, issued, startup, scanVars>>

\* line 94: asyncio.new_event_loop(), which can fail
RegNewLoop(v) ==
    /\ turn[v].pc = "reg_loop"
    /\ \/ /\ turn' = [turn EXCEPT ![v].pc = "reg_create"]
          /\ openLoops' = openLoops \cup {Loop(v, "register")}
       \/ /\ turn' = [turn EXCEPT ![v].regFailed = TRUE, ![v].pc = "prepend"]
          /\ UNCHANGED openLoops
    /\ UNCHANGED <<sessions, issued, startup, scanVars>>

\* RegCreateSession with the session_id argument left to its default, as in the
\* call ensure_session_for(agent_choice)
RegCreateSessionDefaultId(v) ==
    /\ turn[v].pc = "reg_create"
    /\ \/ /\ sessions' = sessions \cup {GLOBAL_STARTUP}
          /\ turn' = [turn EXCEPT ![v].created = Append(@, Str(GLOBAL_STARTUP)),
                                  ![v].pc = "reg_shutdown"]
       \/ /\ UNCHANGED sessions
          /\ turn' = [turn EXCEPT ![v].created = Append(@, Str(GLOBAL_STARTUP)),
                                  ![v].regFailed = TRUE,
                                  ![v].pc = "reg_shutdown"]
    /\ UNCHANGED <<openLoops, issued, startup, scanVars>>

\* line 96: run create_session to completion on the new loop; it succeeds, or it
\* raises (the session service fails, or a loop is already running in this thread)
RegCreateSession(v) ==
    /\ turn[v].pc = "reg_create"
    /\ \/ /\ sessions' = sessions \cup {turn[v].session_id.s}
          /\ turn' = [turn EXCEPT ![v].created = Append(@, turn[v].session_id),
                                  ![v].pc = "reg_shutdown"]
       \/ /\ UNCHANGED sessions
          /\ turn' = [turn EXCEPT ![v].created = Append(@, turn[v].session_id),
                                  ![v].regFailed = TRUE,
                                  ![v].pc = "reg_shutdown"]
    /\ UNCHANGED <<openLoops, issued, startup, scanVars>>

\* lines 98-101: shutdown_asyncgens, its exception swallowed
RegShutdown(v) ==
    /\ turn[v].pc = "reg_shutdown"
    /\ turn' = [turn EXCEPT ![v].pc = "reg_close"]
    /\ UNCHANGED <<sessions, openLoops, issued, startup, scanVars>>

\* line 102: loop.close()
RegClose(v) ==
    /\ turn[v].pc = "reg_close"
    /\ openLoops' = openLoops \ {Loop(v, "register")}
    /\ turn' = [turn EXCEPT ![v].pc = "prepend"]
    /\ UNCHANGED <<sessions, issued, startup, scanVars>>

(***************************************************************************)
(* The history to hand back: lines 111-117.                                *)
(***************************************************************************)
\* the list of line 112, or of line 114: the new marker, then the entries of history
Prepended(session_id, history) == HList(<<Marker(session_id.s)>> \o history.items)

\* PrependMarker done in place, history.insert(0, marker): the list the local
\* history still shares with the caller gets the marker
PrependMarkerInPlace(v) ==
    /\ turn[v].pc = "prepend"
    /\ IF turn[v].history.kind = "none" \/ Iterable(turn[v].history)
       THEN turn' = [turn EXCEPT ![v].history_to_return = Prepended(turn[v].session_id, turn[v].history),
                                 ![v].history = IF turn[v].history.kind = "list"
                                                THEN Prepended(turn[v].session_id, turn[v].history)
                                                ELSE @,
                                 ![v].caller = IF turn[v].history.kind = "list" /\ turn[v].history = turn[v].caller
                                               THEN Prepended(turn[v].session_id, turn[v].history)
                                               ELSE @,
                                 ![v].pc = "dispatch"]
       ELSE turn' = [turn EXCEPT ![v].exc = "TypeError", ![v].raisedAt = "resolve",
                                 ![v].pc = "propagated"]
    /\ UNCHANGED <<sessions, openLoops, issued, startup, scanVars>>

\* lines 111-114 on the minting path; unpacking a value that is not iterable raises
\* TypeError, which nothing in chat_fn catches
PrependMarker(v) ==
    /\ turn[v].pc = "prepend"
    /\ IF turn[v].history.kind = "none" \/ Iterable(turn[v].history)
       THEN turn' = [turn EXCEPT ![v].history_to_return = Prepended(turn[v].session_id, turn[v].history),
                                 ![v].pc = "dispatch"]
       ELSE turn' = [turn EXCEPT ![v].exc = "TypeError", ![v].raisedAt = "resolve",
                                 ![v].pc = "propagated"]
    /\ UNCHANGED <<sessions, openLoops, issued, startup, scanVars>>

\* line 117 on the reuse path: history_to_return = history
KeepHistory(v) ==
    /\ turn[v].pc = "reuse"
    /\ turn' = [turn EXCEPT ![v].history_to_return = turn[v].history, ![v].pc = "dispatch"]
    /\ UNCHANGED <<sessions, openLoops, issued, startup, scanVars>>

(***************************************************************************)
(* Async/Sync Bridge: run_agent_sync, lines 45-60, around the helper       *)
(* _send_and_get_final_response_async, lines 32-42.                        *)
(***************************************************************************)
\* the values the helper can return at line 42, over the streams and faults of a turn
TurnReplies == {AgentReply(evs, f) : evs \in TurnStreams, f \in {"none"} \cup RuntimeFaults}

\* the ways one execution of the helper can end: an exception of line 33, raised
\* outside the helper's try (KeyError for an unknown key, or a fault of
\* make_runner_for), or the value of final_response at line 42
CoroutineOutcomes(agent_key) ==
    IF agent_key \notin AGENTS
    THEN {[result |-> Unset, exc |-> "KeyError"]}
    ELSE {[result |-> Unset, exc |-> e] : e \in RuntimeFaults}
         \cup {[result |-> r, exc |-> "none"] : r \in TurnReplies}

\* the try statement of lines 46-60 once asyncio.run has ended: its value is
\* returned, a RuntimeError enters the fallback of line 48, and any other
\* exception becomes the reply of line 60
BridgeAfterPrimary(tn) ==
    CASE tn.exc = "none" -> [tn EXCEPT !.response = tn.result, !.pc = "return"]
      [] tn.exc = "RuntimeError" -> [tn EXCEPT !.exc = "none", !.result = Unset,
                                               !.pc = "fallback_loop"]
      [] OTHER -> [tn EXCEPT !.response = ErrorInvokingAgentReply(tn.exc),
                             !.exc = "none", !.pc = "return"]

\* line 120 and line 47: run_agent_sync(message, agent_choice, session_id) enters
\* asyncio.run, which raises RuntimeError when a loop is already running in this
\* thread, and otherwise creates its loop (or fails to)
AsyncioRunEnter(v) ==
    /\ turn[v].pc = "dispatch"
    /\ LET tn == [turn[v] EXCEPT !.dispatched = turn[v].session_id]
       IN \/ /\ turn' = [turn EXCEPT ![v] = BridgeAfterPrimary([tn EXCEPT !.exc = "RuntimeError",
                                                                           !.ambient = TRUE])]
             /\ UNCHANGED openLoops
          \/ /\ turn' = [turn EXCEPT ![v] = BridgeAfterPrimary([tn EXCEPT !.exc = "OSError"])]
             /\ UNCHANGED openLoops
          \/ /\ turn' = [turn EXCEPT ![v] = [tn EXCEPT !.pc = "primary_coro"]]
             /\ openLoops' = openLoops \cup {Loop(v, "primary")}
    /\ UNCHANGED <<sessions, issued, startup, scanVars>>

\* line 47: the helper runs on the loop of asyncio.run
PrimaryCoroutine(v) ==
    /\ turn[v].pc = "primary_coro"
    /\ \E o \in CoroutineOutcomes(turn[v].agent_choice) :
          turn' = [turn EXCEPT ![v].result = o.result, ![v].exc = o.exc,
                               ![v].runs = @ + 1, ![v].pc = "primary_teardown"]
    /\ UNCHANGED <<sessions, openLoops, issued, startup, scanVars>>

\* line 47: asyncio.run closes its loop; a fault of the teardown replaces the outcome
PrimaryTeardown(v) ==
    /\ turn[v].pc = "primary_teardown"
    /\ openLoops' = openLoops \ {Loop(v, "primary")}
    /\ \/ turn' = [turn EXCEPT ![v] = BridgeAfterPrimary(turn[v])]
       \/ \E e \in RuntimeFaults :
             turn' = [turn EXCEPT ![v] = BridgeAfterPrimary([turn[v] EXCEPT !.exc = e, !.result = Unset])]
    /\ UNCHANGED <<sessions, issued, startup, scanVars>>

\* line 50: the fallback creates its own loop; a failure here is raised inside the
\* except clause and leaves run_agent_sync
FallbackNewLoop(v) ==
    /\ turn[v].pc = "fallback_loop"
    /\ \/ /\ turn' = [turn EXCEPT ![v].pc = "fallback_coro"]
          /\ openLoops' = openLoops \cup {Loop(v, "fallback")}
       \/ /\ turn' = [turn EXCEPT ![v].exc = "OSError", ![v].raisedAt = "bridge",
                                  ![v].pc = "propagated"]
          /\ UNCHANGED openLoops
    /\ UNCHANGED <<sessions, issued, startup, scanVars>>

\* line 52: run_until_complete(helper) on the fallback loop; with a loop already
\* running in this thread it raises RuntimeError before the helper starts
FallbackCoroutine(v) ==
    /\ turn[v].pc = "fallback_coro"
    /\ IF turn[v].ambient
       THEN turn' = [turn EXCEPT ![v].exc = "RuntimeError", ![v].pc = "fallback_shutdown"]
       ELSE \E o \in CoroutineOutcomes(turn[v].agent_choice) :
               turn' = [turn EXCEPT ![v].result = o.result, ![v].exc = o.exc,
                                    ![v].runs = @ + 1, ![v].pc = "fallback_shutdown"]
    /\ UNCHANGED <<sessions, openLoops, issued, startup, scanVars>>

\* lines 54-57: shutdown_asyncgens, its exception swallowed
FallbackShutdown(v) ==
    /\ turn[v].pc = "fallback_shutdown"
    /\ turn' = [turn EXCEPT ![v].pc = "fallback_close"]
    /\ UNCHANGED <<sessions, openLoops, issued, startup, scanVars>>

\* FallbackClose without the finally of line 53: the loop is closed on the way of
\* the returned value only
FallbackCloseOnSuccessOnly(v) ==
    /\ turn[v].pc = "fallback_close"
    /\ IF turn[v].exc = "none"
       THEN /\ turn' = [turn EXCEPT ![v].response = turn[v].result, ![v].pc = "return"]
            /\ openLoops' = openLoops \ {Loop(v, "fallback")}
       ELSE /\ turn' = [turn EXCEPT ![v].raisedAt = "bridge", ![v].pc = "propagated"]
            /\ UNCHANGED openLoops
    /\ UNCHANGED <<sessions, issued, startup, scanVars>>

\* line 58 and the end of the try of line 51: the loop is closed, then the value
\* of line 52 is returned or its exception leaves run_agent_sync and chat_fn
FallbackClose(v) ==
    /\ turn[v].pc = "fallback_close"
    /\ openLoops' = openLoops \ {Loop(v, "fallback")}
    /\ IF turn[v].exc = "none"
       THEN turn' = [turn EXCEPT ![v].response = turn[v].result, ![v].pc = "return"]
       ELSE turn' = [turn EXCEPT ![v].raisedAt = "bridge", ![v].pc = "propagated"]
    /\ UNCHANGED <<sessions, issued, startup, scanVars>>

\* line 127: chat_fn returns the response
Return(v) ==
    /\ turn[v].pc = "return"
    /\ turn' = [turn EXCEPT ![v].pc = "done"]
    /\ UNCHANGED <<sessions, openLoops, issued, startup, scanVars>>

(***************************************************************************)
(* The event scan of the helper, one iteration at a time: lines 35-42.     *)
(***************************************************************************)
\* line 37-39: the loop takes the next event
ConsumeEvent ==
    /\ scanPc = "scan"
    /\ consumed < Len(stream)
    /\ final_response' = OnEvent(final_response, stream[consumed + 1])
    /\ consumed' = consumed + 1
    /\ UNCHANGED <<stream, streamFault, scanPc, turnVars>>

\* lines 40-42: the agent call throws after the events of the stream
EventFault ==
    /\ scanPc = "scan"
    /\ consumed = Len(stream)
    /\ streamFault # "none"
    /\ final_response' = AgentRuntimeErrorReply(streamFault)
    /\ scanPc' = "returned"
    /\ UNCHANGED <<stream, streamFault, consumed, turnVars>>

\* line 42: the stream is exhausted and the helper returns final_response
EndOfStream ==
    /\ scanPc = "scan"
    /\ consumed = Len(stream)
    /\ streamFault = "none"
    /\ scanPc' = "returned"
    /\ UNCHANGED <<stream, streamFault, consumed, final_response, turnVars>>

(***************************************************************************)
(* The import of app.py: ensure_session_for(), lines 14-29.  An exception  *)
(* that leaves it ends the import, and chat_fn is never served.            *)
(***************************************************************************)
\* the session store after the import of app.py: ensure_session_for() of line 29
\* has registered "global-startup"
StartupSessions == {GLOBAL_STARTUP}

\* the loop of ensure_session_for
StartupLoop == [owner |-> "import", site |-> "ensure"]

\* line 15: make_runner_for(AGENTS[agent_key]), which can raise
EnsureMakeRunner ==
    /\ startup.pc = "ensure_runner"
    /\ \/ startup' = [startup EXCEPT !.pc = "ensure_loop"]
       \/ startup' = [startup EXCEPT !.pc = "failed", !.exc = TRUE]
    /\ UNCHANGED <<turn, sessions, openLoops, issued, scanVars>>

\* line 16: asyncio.new_event_loop(), which can fail
EnsureNewLoop ==
    /\ startup.pc = "ensure_loop"
    /\ \/ /\ startup' = [startup EXCEPT !.pc = "ensure_create"]
          /\ openLoops' = openLoops \cup {StartupLoop}
       \/ /\ startup' = [startup EXCEPT !.pc = "failed", !.exc = TRUE]
          /\ UNCHANGED openLoops
    /\ UNCHANGED <<turn, sessions, issued, scanVars>>

\* lines 18-20: create_session for "global-startup", which succeeds or raises
EnsureCreateSession ==
    /\ startup.pc = "ensure_create"
    /\ \/ /\ sessions' = sessions \cup StartupSessions
          /\ startup' = [startup EXCEPT !.pc = "ensure_shutdown"]
       \/ /\ UNCHANGED sessions
          /\ startup' = [startup EXCEPT !.pc = "ensure_shutdown", !.exc = TRUE]
    /\ UNCHANGED <<turn, openLoops, issued, scanVars>>

\* lines 22-25: shutdown_asyncgens, its exception swallowed
EnsureShutdown ==
    /\ startup.pc = "ensure_shutdown"
    /\ startup' = [startup EXCEPT !.pc = "ensure_close"]
    /\ UNCHANGED <<turn, sessions, openLoops, issued, scanVars>>

\* line 26: loop.close(); then ensure_session_for returns, or its exception
\* ends the import
EnsureClose ==
    /\ startup.pc = "ensure_close"
    /\ openLoops' = openLoops \ {StartupLoop}
    /\ startup' = [startup EXCEPT !.pc = IF startup.exc THEN "failed" ELSE "served"]
    /\ UNCHANGED <<turn, sessions, issued, scanVars>>

(***************************************************************************)
(* Specifications.                                                         *)
(***************************************************************************)

\* the state once app.py is imported and serves
TurnInit ==
    /\ turn = [v \in Visitors |-> IdleTurn]
    /\ sessions = StartupSessions
    /\ openLoops = {}
    /\ issued = {}
    /\ startup = [pc |-> "served", exc |-> FALSE]

\* the state when the import of app.py reaches line 29
Init ==
    /\ turn = [v \in Visitors |-> IdleTurn]
    /\ sessions = {}
    /\ openLoops = {}
    /\ issued = {}
    /\ startup = [pc |-> "ensure_runner", exc |-> FALSE]
    /\ stream = <<>>
    /\ streamFault = "none"
    /\ consumed = 0
    /\ final_response = Unset
    /\ scanPc = "off"

\* a step of a call of chat_fn past its entry
TurnStep(v) ==
    \/ DecodeMarker(v)
    \/ MintSession(v)
    \/ RegMakeRunner(v)
    \/ RegNewLoop(v)
    \/ RegCreateSession(v)
    \/ RegShutdown(v)
    \/ RegClose(v)
    \/ PrependMarker(v)
    \/ KeepHistory(v)
    \/ AsyncioRunEnter(v)
    \/ PrimaryCoroutine(v)
    \/ PrimaryTeardown(v)
    \/ FallbackNewLoop(v)
    \/ FallbackCoroutine(v)
    \/ FallbackShutdown(v)
    \/ FallbackClose(v)
    \/ Return(v)

Next ==
    \/ EnsureMakeRunner
    \/ EnsureNewLoop
    \/ EnsureCreateSession
    \/ EnsureShutdown
    \/ EnsureClose
    \/ \E v \in Sequential :
        \/ ChatFnCall(v)
        \/ Forget(v)
        \/ ChatFnCallNext(v)
        \/ TurnStep(v)

Spec == Init /\ [][Next]_vars

\* the event scan on its own: every stream and every fault, line 35 executed
\* the calls of chat_fn of several worker threads, their steps interleaved
ConcurrentInit ==
    /\ TurnInit
    /\ stream = <<>>
    /\ streamFault = "none"
    /\ consumed = 0
    /\ final_response = Unset
    /\ scanPc = "off"

ConcurrentNext ==
    \E v \in Visitors :
        \/ ChatFnCallConcurrent(v)
        \/ Forget(v)
        \/ TurnStep(v)

SpecConcurrent == ConcurrentInit /\ [][ConcurrentNext]_vars

ScanInit ==
    /\ TurnInit
    /\ stream \in Streams
    /\ streamFault \in {"none"} \cup RuntimeFaults
    /\ consumed = 0
    /\ final_response = Str(NO_RESPONSE)
    /\ scanPc = "scan"

ScanNext == ConsumeEvent \/ EventFault \/ EndOfStream

SpecScan == ScanInit /\ [][ScanNext]_vars

(***************************************************************************)
(* Properties.                                                             *)
(***************************************************************************)
\* the marker shape of the wire format: a pair whose first field is "__SID__:"
\* followed by a non-empty session id and whose second field is ""
MarkerShape(e) ==
    /\ e.kind \in {"tuple", "list"}
    /\ Len(e.items) = 2
    /\ e.items[1].kind = "str"
    /\ StartsWith(e.items[1].s, SID_MARKER)
    /\ Len(e.items[1].s) > Len(SID_MARKER)
    /\ e.items[2] = Str(<<>>)

\* the session id a marker carries: its first field without the prefix
MarkerId(e) == SubSeq(e.items[1].s, Len(SID_MARKER) + 1, Len(e.items[1].s))

\* the history is a list whose first entry has the marker shape
CarriesMarker(h) == h.kind = "list" /\ Len(h.items) >= 1 /\ MarkerShape(h.items[1])

\* the call has passed the decode step
Decoded(tn) == tn.pc \notin {"idle", "decode"}

\* the call is over: it has returned or an exception has left it
Over(tn) == tn.pc \in {"done", "propagated"}

\* C1: session continuity: in a run of consecutive turns fed by the history the
\* previous turn handed back, every turn after the first mints and registers
\* nothing and dispatches to the session id the first turn minted.
SessionContinuity ==
    \A v \in Visitors :
        turn[v].runIdx >= 2 =>
            /\ turn[v].minted = Unset
            /\ turn[v].created = <<>>
            /\ turn[v].dispatched # Unset => turn[v].dispatched = turn[v].runSid

\* C2: marker round-trip: a turn whose history is the marker of a valid session
\* id sid (ids with ':' included) followed by H decodes exactly sid, goes on with
\* exactly H as the cleaned history, and dispatches with sid.
MarkerRoundTrip ==
    \A v \in Visitors :
        (Decoded(turn[v]) /\ CarriesMarker(turn[v].history0)) =>
            /\ turn[v].decoded = Str(MarkerId(turn[v].history0.items[1]))
            /\ turn[v].session_id = Str(MarkerId(turn[v].history0.items[1]))
            /\ turn[v].history = HList(Tail(turn[v].history0.items))

\* witness of C2: a marker whose id contains ':' and which a real turn follows
\* has been decoded to that id, the real turn left as the cleaned history
MarkerRoundTripWitness ==
    \E v \in Visitors :
        /\ turn[v].pc = "done"
        /\ turn[v].history0 = HList(<<Marker(<<"a", ":", "b">>), RealTurn>>)
        /\ turn[v].dispatched = Str(<<"a", ":", "b">>)
        /\ turn[v].history = HList(<<RealTurn>>)

\* C3: marker absence: a history whose first entry does not have the marker
\* shape (null and empty histories included) decodes to 'absent' and is left
\* unchanged, so the turn mints a new session id.
MarkerAbsence ==
    \A v \in Visitors :
        (Decoded(turn[v]) /\ ~CarriesMarker(turn[v].history0)) =>
            /\ turn[v].decoded = Unset
            /\ turn[v].history = turn[v].history0
            /\ turn[v].pc # "reuse"

\* C4: no registration on reuse: a turn that decodes a session id from the
\* marker makes no createSession call, mints nothing, and dispatches with the
\* decoded id; the marker of "session-abc123" alone gives that id and an empty
\* cleaned history.
NoRegistrationOnReuse ==
    \A v \in Visitors :
        /\ TruthyStr(turn[v].decoded) =>
              /\ turn[v].created = <<>>
              /\ turn[v].minted = Unset
              /\ turn[v].pc \notin {"mint", "reg_runner", "reg_loop", "reg_create",
                                    "reg_shutdown", "reg_close", "prepend"}
              /\ turn[v].pc \notin {"reuse", "dispatch"} => turn[v].dispatched = turn[v].decoded
        /\ (Decoded(turn[v])
              /\ turn[v].history0 = HList(<<Marker(SESSION_ID_PREFIX \o <<"a", "b", "c", "1", "2", "3">>)>>)) =>
              /\ turn[v].decoded = Str(SESSION_ID_PREFIX \o <<"a", "b", "c", "1", "2", "3">>)
              /\ turn[v].history = HList(<<>>)

\* witness of C4: the turn of the scenario is over, dispatched with the decoded id
NoRegistrationOnReuseWitness ==
    \E v \in Visitors :
        /\ Over(turn[v])
        /\ turn[v].history0 = HList(<<Marker(SESSION_ID_PREFIX \o <<"a", "b", "c", "1", "2", "3">>)>>)
        /\ turn[v].dispatched = Str(SESSION_ID_PREFIX \o <<"a", "b", "c", "1", "2", "3">>)
        /\ turn[v].created = <<>>

\* C5: history to persist: a minting turn computes the marker of the minted id
\* followed by the entries of the incoming history in order (the marker alone for
\* a null or empty history); a reusing turn computes the cleaned history.
HistoryToPersist ==
    \A v \in Visitors :
        turn[v].history_to_return # HUnset =>
            IF turn[v].minted # Unset
            THEN turn[v].history_to_return
                    = HList(<<Marker(turn[v].minted.s)>> \o turn[v].history0.items)
            ELSE turn[v].history_to_return = HList(Tail(turn[v].history0.items))

\* C6: no crash in session resolution: whatever the incoming history, no
\* exception leaves the decode, mint, registration and prepend steps, and the id
\* given to the agent dispatch is a non-empty string.
ResolveNeverRaises ==
    \A v \in Visitors :
        /\ ~(turn[v].pc = "propagated" /\ turn[v].raisedAt = "resolve")
        /\ turn[v].dispatched # Unset => TruthyStr(turn[v].dispatched)

\* C7: fault containment: no exception raised in run_agent_sync, on the primary
\* or the fallback path, leaves it; chat_fn returns a reply.
FaultContainment ==
    \A v \in Visitors : ~(turn[v].pc = "propagated" /\ turn[v].raisedAt = "bridge")

\* C8: reply totality: for every event stream, and for an agent call that throws
\* part-way, the helper returns a string, never None.
ReplyTotality == scanPc = "returned" => final_response.kind = "str"

\* the positions of the events of a stream that are final and have content with parts
QualifyingPositions(evs) == {i \in 1..Len(evs) : evs[i].final /\ evs[i].content = "parts"}

\* the reply a stream calls for: the text of its last qualifying event, or "(no response)"
ExpectedReply(evs) ==
    IF QualifyingPositions(evs) = {} THEN Str(NO_RESPONSE)
    ELSE evs[Greatest(QualifyingPositions(evs))].text

\* C9: final-reply selection: while no fault has occurred, the reply is the text
\* of the last event taken so far that is final and has non-empty content, and
\* "(no response)" when none qualifies; other events never change it.
FinalReplySelection ==
    (scanPc = "scan" \/ (scanPc = "returned" /\ streamFault = "none")) =>
        final_response = ExpectedReply(SubSeq(stream, 1, consumed))

\* witness of C9: a stream of two qualifying events with different texts, followed
\* to its end, has given the text of the second
FinalReplySelectionWitness ==
    /\ scanPc = "returned"
    /\ streamFault = "none"
    /\ Len(stream) = 2
    /\ QualifyingPositions(stream) = {1, 2}
    /\ stream[1].text # stream[2].text
    /\ final_response = stream[2].text

\* C10: registration failure is swallowed: a minting turn whose registration
\* failed still dispatches with the minted id, computes a history to persist that
\* opens with the marker of that id, and returns a reply string.
RegistrationFailureSwallowed ==
    \A v \in Visitors :
        (turn[v].regFailed /\ Over(turn[v])) =>
            /\ turn[v].pc = "done"
            /\ turn[v].dispatched = turn[v].minted
            /\ turn[v].history_to_return.kind = "list"
            /\ Len(turn[v].history_to_return.items) >= 1
            /\ turn[v].history_to_return.items[1] = Marker(turn[v].minted.s)
            /\ turn[v].response.kind = "str"

\* C11: no retries: within one turn the agent operation (the helper of lines
\* 32-42: runner construction, then the agent run) is started at most once,
\* whatever the exception of the first attempt and wherever it is raised, the
\* teardown of the primary asyncio.run included.
NoRetries == \A v \in Visitors : turn[v].runs <= 1

\* the positions of a call between the creation of a loop at the given place and
\* the end of the block that closes it
LoopSection(site) ==
    CASE site = "register" -> {"reg_create", "reg_shutdown", "reg_close"}
      [] site = "primary" -> {"primary_coro", "primary_teardown"}
      [] site = "fallback" -> {"fallback_coro", "fallback_shutdown", "fallback_close"}
      [] OTHER -> {}

\* C12: event-loop resource discipline: a loop created by ensure_session_for, by
\* the registration step of chat_fn or by run_agent_sync (primary and fallback)
\* is open only while the block that created it is still executing; once that
\* call has returned or raised, on whatever path, the loop is closed, and no loop
\* is left open by completed turns.
LoopsClosedOnExit ==
    \A l \in openLoops :
        IF l = StartupLoop
        THEN startup.pc \in {"ensure_create", "ensure_shutdown", "ensure_close"}
        ELSE l.owner \in Visitors /\ turn[l.owner].pc \in LoopSection(l.site)

\* witness of C12: a turn that created a registration loop whose create_session
\* failed, a primary loop and a fallback loop has ended by the exception of the
\* second agent run, and no loop is open
LoopsClosedOnExitWitness ==
    /\ startup.pc = "served"
    /\ \E v \in Visitors :
          /\ turn[v].pc = "propagated"
          /\ turn[v].raisedAt = "bridge"
          /\ turn[v].regFailed
          /\ turn[v].created # <<>>
          /\ turn[v].runs = 2
    /\ openLoops = {}

\* C13: fallback path: when asyncio.run fails because a loop is already running
\* in the calling thread, run_agent_sync runs the agent operation to completion
\* on a second loop of its own: once line 52 is passed the operation has been run
\* once, a turn that returns gives that operation's reply string, and the fallback
\* loop is closed when the call is over.
FallbackRunsOperation ==
    \A v \in Visitors :
        turn[v].ambient =>
            /\ turn[v].pc \in {"fallback_shutdown", "fallback_close"} => turn[v].runs = 1
            /\ turn[v].pc \in {"return", "done"} =>
                  turn[v].runs = 1 /\ turn[v].response.kind = "str"
            /\ Over(turn[v]) => Loop(v, "fallback") \notin openLoops

\* C14: statelessness / session stability: the session id a turn extracts from a
\* marker-carrying history, and dispatches to, depends on that history alone: any
\* two calls with the same marker-carrying history, one after the other or in
\* flight together, with different messages and with whatever other turns have
\* minted and registered in between, extract the same id, and it is the id the
\* turn dispatches to.
SessionStability ==
    \A v, w \in Visitors :
        ( /\ CarriesMarker(turn[v].history0)
          /\ turn[w].history0 = turn[v].history0
          /\ Decoded(turn[v])
          /\ Decoded(turn[w]) ) =>
            /\ turn[v].decoded # Unset
            /\ turn[v].decoded = turn[w].decoded
            /\ turn[v].minted = Unset
            /\ turn[v].dispatched \in {Unset, turn[w].decoded}

\* witness of C14: two calls with the same marker-carrying history and different
\* messages, the first over before the id of the marker was registered by anyone,
\* the second dispatched after another turn has minted and registered that id
SessionStabilityWitness ==
    \E v, w \in Visitors :
        /\ v # w
        /\ CarriesMarker(turn[v].history0)
        /\ turn[w].history0 = turn[v].history0
        /\ turn[v].message # turn[w].message
        /\ turn[v].pc = "done"
        /\ turn[w].dispatched = turn[v].dispatched
        /\ turn[w].dispatched # Unset
        /\ turn[w].dispatched.s \in issued
        /\ turn[w].dispatched.s \in sessions

\* C15: marker position: for every incoming history, in whatever container the
\* transport delivers it, whose entries after the first are not marker-shaped,
\* the cleaned history passed on holds no marker entry and the history to persist
\* holds a marker entry at index 0 at most (none at a later index).
MarkerPosition ==
    \A v \in Visitors :
        (\A i \in 2..Len(turn[v].history0.items) : ~MarkerShape(turn[v].history0.items[i])) =>
            /\ Decoded(turn[v]) =>
                  \A i \in 1..Len(turn[v].history.items) : ~MarkerShape(turn[v].history.items[i])
            /\ \A i \in 2..Len(turn[v].history_to_return.items) :
                  ~MarkerShape(turn[v].history_to_return.items[i])

\* C16: no shared execution context between concurrent turns: in every
\* interleaving of the calls in flight, duplicate submissions with the same
\* session id included, a call that is between the creation and the closing of
\* one of its loops finds that loop open - no other call has closed it under its
\* registration or agent run - and every open loop is the loop of exactly one
\* call that is inside that block.
LoopIsolation ==
    /\ \A v \in Visitors : \A site \in {"register", "primary", "fallback"} :
          turn[v].pc \in LoopSection(site) => Loop(v, site) \in openLoops
    /\ \A l \in openLoops :
          Cardinality({v \in Visitors : l.site \in {"register", "primary", "fallback"}
                                        /\ l = Loop(v, l.site)
                                        /\ turn[v].pc \in LoopSection(l.site)}) = 1

\* witness of C16: two submissions with the same marker-carrying history are in
\* flight; one has run the agent and closed its loop, the other is still running
\* the agent on its own open loop for the same session id
LoopIsolationWitness ==
    \E v, w \in Visitors :
        /\ v # w
        /\ CarriesMarker(turn[v].history0)
        /\ turn[w].history0 = turn[v].history0
        /\ turn[v].pc = "return"
        /\ turn[v].runs = 1
        /\ turn[w].pc = "primary_coro"
        /\ turn[w].dispatched = turn[v].dispatched
        /\ Loop(w, "primary") \in openLoops
        /\ Loop(v, "primary") \notin openLoops

\* C17 as stated: new-session uniqueness: any two turns that mint a session id,
\* one after the other or interleaved, mint two distinct ids.
MintedIdsDistinct ==
    \A v, w \in Visitors :
        (v # w /\ turn[v].minted # Unset /\ turn[w].minted # Unset) =>
            turn[v].minted # turn[w].minted

\* C17, amended: every minted session id is "session-" followed by the whole
\* identifier uuid4 returned to that turn, so two turns that mint, sequential or
\* interleaved, mint distinct ids whenever uuid4 gave them distinct identifiers;
\* the uniqueness is that of uuid4 and nothing else.
MintedIdsDistinctAsUuids ==
    \A v, w \in Visitors :
        turn[v].minted # Unset =>
            /\ turn[v].uuid \in UUIDS
            /\ turn[v].minted = Str(SESSION_ID_PREFIX \o turn[v].uuid)
            /\ (turn[w].minted # Unset /\ turn[w].uuid # turn[v].uuid) =>
                  turn[w].minted # turn[v].minted

\* witness of C17: two turns in flight together have minted, from two different
\* identifiers, two different session ids
MintedIdsDistinctWitness ==
    \E v, w \in Visitors :
        /\ turn[v].pc = "reg_create"
        /\ turn[w].pc = "reg_create"
        /\ turn[v].uuid # turn[w].uuid
        /\ turn[v].minted # turn[w].minted
        /\ {turn[v].minted.s, turn[w].minted.s} \subseteq issued

ServerIssuedIdsOnly ==
    \A v \in Visitors :
        turn[v].dispatched # Unset => turn[v].dispatched.s \in issued

\* the text after "__SID__:" in the first field of the first entry of a list
\* history, the set of it; empty when the history opens with no such entry
ClientChosenIds(h) ==
    IF /\ h.kind = "list"
       /\ Len(h.items) >= 1
       /\ h.items[1].kind \in {"tuple", "list"}
       /\ Len(h.items[1].items) >= 1
       /\ h.items[1].items[1].kind = "str"
       /\ StartsWith(h.items[1].items[1].s, SID_MARKER)
    THEN {SubSeq(h.items[1].items[1].s, Len(SID_MARKER) + 1, Len(h.items[1].items[1].s))}
    ELSE {}

\* C19, amended: every session id chat_fn gives to the agent run is a non-empty
\* string that is either the id this turn minted, or the text the client's history
\* carries after "__SID__:" in the first field of its first entry, taken as it
\* is: minted by chat_fn or not.
ServerIssuedOrClientChosen ==
    \A v \in Visitors :
        turn[v].dispatched # Unset =>
            /\ TruthyStr(turn[v].dispatched)
            /\ \/ /\ turn[v].dispatched = turn[v].minted
                  /\ turn[v].dispatched.s \in issued
               \/ /\ turn[v].minted = Unset
                  /\ turn[v].dispatched.s \in ClientChosenIds(turn[v].history0)

\* witness of C19: a turn whose history was crafted to carry "global-startup"
\* has run the agent under that id, which chat_fn never minted, and has returned
ServerIssuedOrClientChosenWitness ==
    \E v \in Visitors :
        /\ turn[v].pc = "done"
        /\ turn[v].runs >= 1
        /\ turn[v].minted = Unset
        /\ turn[v].dispatched = Str(GLOBAL_STARTUP)
        /\ GLOBAL_STARTUP \notin issued
        /\ GLOBAL_STARTUP \in sessions

\* C20: the caller's history is never mutated: on every path of chat_fn (marker
\* decoded, marker absent, malformed input, exception) the object the caller
\* passed as history holds the entries it held at the call; the stripped history
\* and the history to persist are new sequences.
CallerHistoryUnchanged ==
    \A v \in Visitors :
        turn[v].pc # "idle" => turn[v].caller = turn[v].history0

\* witness of C20: a turn given a non-empty list without marker has minted an id,
\* built the history to persist with the marker in front, and returned, and the
\* caller's list is as it was
CallerHistoryUnchangedWitness ==
    \E v \in Visitors :
        /\ turn[v].pc = "done"
        /\ turn[v].minted # Unset
        /\ turn[v].history0.kind = "list"
        /\ Len(turn[v].history0.items) >= 1
        /\ turn[v].history_to_return.items =
              <<Marker(turn[v].minted.s)>> \o turn[v].history0.items
        /\ turn[v].caller = turn[v].history0
        /\ turn[v].caller # turn[v].history_to_return

====
